---- MODULE Spec2Model ----
(***************************************************************************)
(* A model of the wgpu_demo renderer: the event loop of app.rs, the scene  *)
(* update and multi-pass render of scene.rs, the draw emitter and the      *)
(* material/pipeline cache of model.rs and render_pipeline.rs, the dirty   *)
(* flag discipline of util.rs, light.rs, camera.rs and model.rs, and the   *)
(* compositor of compositor.rs.                                            *)
(*                                                                         *)
(* Numbers: colours are fixed-point with one unit = 0.005, so a squared    *)
(* distance of 1e-4 is 4 squared units.  Sizes are <<width, height>>.      *)
(***************************************************************************)
EXTENDS Integers, Sequences, FiniteSets, TLC

VARIABLES
    gpu,                \* GpuState: size, config, color_attachment, depth_attachment
    pipelines,          \* GpuState.pipeline_vendor.pipelines: id -> pipeline object
    camera_controller,  \* Scene.camera_controller (owns the Camera)
    ambient_light,      \* Scene.ambient_light, the aggregate ambient light
    lights,             \* Scene.lights
    models,             \* Scene.models
    scene_size,         \* Scene.size
    compositor,         \* Compositor: size, uniform, textures_bind_group
    control_flow,       \* the event loop's ControlFlow
    cmds,               \* what the last event handler issued to the queue, the encoder and the surface
    materials,          \* materials built by Material::new (pipeline-cache specification)
    hist                \* calls observed so far (object-level specifications)

vars == <<gpu, pipelines, camera_controller, ambient_light, lights, models,
          scene_size, compositor, control_flow, cmds, materials, hist>>

----------------------------------------------------------------------------
\* Bounds of the model

NLights == 2
NModels == 2
MaxMaterials == 2

\* light.rs:6, const EPSILON: f32 = 1e-4, in squared units of 0.005
EPSILON == 4

LightIds == 1..NLights
ModelIds == 1..NModels

LightTypes == {"Ambient", "Point", "Spot", "Directional"}
AmbientInputs == {<<0, 0, 0>>, <<3, 0, 0>>, <<4, 1, 0>>}
SizeInputs == {<<1024, 768>>, <<0, 600>>}
AcquireResults == {"Ok", "Timeout"}
SurfaceResults == {"Ok", "Lost", "Outdated", "Timeout", "OutOfMemory"}
Passes == <<"Ambient", "Lit">>

----------------------------------------------------------------------------
\* Vectors

Zero3 == <<0, 0, 0>>
Add3(a, b) == <<a[1] + b[1], a[2] + b[2], a[3] + b[3]>>
distance2(a, b) ==
    (a[1] - b[1]) * (a[1] - b[1]) + (a[2] - b[2]) * (a[2] - b[2])
        + (a[3] - b[3]) * (a[3] - b[3])
color3(v) == <<v[1] * v[1], v[2] * v[2], v[3] * v[3]>>

RECURSIVE FoldAmbient(_, _)
\* lights.values().fold(Vector3::zero(), |total, light| total + light.ambient())
FoldAmbient(ls, order) ==
    IF order = <<>> THEN Zero3
    ELSE Add3(FoldAmbient(ls, Tail(order)), ls[Head(order)].ambient)

----------------------------------------------------------------------------
\* The command log

NoTarget == [kind |-> "none", id |-> 0, size |-> <<0, 0>>]
SwapChain == [kind |-> "swapchain", id |-> 0, size |-> <<0, 0>>]

Cmd(op, who) ==
    [op |-> op, who |-> who, pass |-> "", model |-> 0, mesh |-> 0, light |-> 0,
     pipeline |-> 0, color |-> NoTarget, depth |-> NoTarget, size |-> <<0, 0>>,
     result |-> ""]

Call(who) == Cmd("call", who)
WriteBuffer(who, n) == [Cmd("write_buffer", who) EXCEPT !.light = n]

----------------------------------------------------------------------------
\* light.rs

LightTag(t) ==
    CASE t = "Ambient" -> 0
      [] t = "Point" -> 1
      [] t = "Spot" -> 2
      [] t = "Directional" -> 3

\* Vectors (colours, positions, directions) are fixed-point with one unit =
\* 0.005: a unit vector has length UnitLength.  Scalars (attenuations,
\* angles) are fixed-point with one unit = 2.5e-5, the square of the vector
\* unit, so that EPSILON is 4 units of either a scalar or a squared distance.
UnitLength == 200
One == UnitLength * UnitLength

Max(a, b) == IF a > b THEN a ELSE b
Abs(a) == IF a < 0 THEN -a ELSE a
Dot3(a, b) == a[1] * b[1] + a[2] * b[2] + a[3] * b[3]

RECURSIVE SqrtBetween(_, _, _)
\* The largest r in lo..hi with r * r <= n, found by bisection
SqrtBetween(n, lo, hi) ==
    IF lo = hi THEN lo
    ELSE LET mid == (lo + hi + 1) \div 2
         IN  IF mid * mid <= n THEN SqrtBetween(n, mid, hi)
             ELSE SqrtBetween(n, lo, mid - 1)

\* The length of v in vector units, rounded down
Magnitude(v) == SqrtBetween(Dot3(v, v), 0, Abs(v[1]) + Abs(v[2]) + Abs(v[3]))

\* v.normalize(), for v # 0
normalize(v) ==
    LET m == Magnitude(v)
    IN  [i \in 1..3 |-> (v[i] * UnitLength) \div m]

LightUniformDefault ==
    [position |-> Zero3, light_type |-> 0, direction |-> Zero3, ambient |-> Zero3,
     color |-> Zero3, attenuation |-> <<0, 0, 0, <<"const", 0>> >>]

\* The fields of the four light descriptors
LightDescriptor(position, direction, ambient, color, constant, linear, exponential, breadth) ==
    [position |-> position, direction |-> direction, ambient |-> ambient,
     color |-> color, constant_attenuation |-> constant,
     linear_attenuation |-> linear, exponential_attenuation |-> exponential,
     spot_breadth |-> breadth]

\* new_ambient, new_point, new_spot, new_directional: t names the constructor
Light_new_from(t, desc) ==
    [light_type |-> t,
     position |-> IF t \in {"Point", "Spot"} THEN desc.position ELSE Zero3,
     direction |-> IF t \in {"Spot", "Directional"}
                   THEN normalize(desc.direction) ELSE Zero3,
     ambient |-> desc.ambient,
     color |-> IF t = "Ambient" THEN Zero3 ELSE desc.color,
     constant_attenuation |-> IF t = "Ambient" THEN One
                              ELSE Max(desc.constant_attenuation, 0),
     linear_attenuation |-> IF t \in {"Point", "Spot"}
                            THEN Max(desc.linear_attenuation, 0) ELSE 0,
     exponential_attenuation |-> IF t \in {"Point", "Spot"}
                                 THEN Max(desc.exponential_attenuation, 0) ELSE 0,
     spot_breadth |-> IF t = "Spot" THEN desc.spot_breadth ELSE 0,
     is_dirty |-> TRUE,
     uniform |-> LightUniformDefault]

\* A light of type t with the given ambient term, white, at the origin,
\* pointing along x, with attenuation (1, 0, 0)
Light_new(t, ambient) ==
    Light_new_from(t, LightDescriptor(Zero3, <<UnitLength, 0, 0>>, ambient,
                                      <<UnitLength, UnitLength, UnitLength>>,
                                      One, 0, 0, 0))

\* Light_set_ambient with the comparison inverted
Light_set_ambient_inverted(l, new_ambient) ==
    IF distance2(new_ambient, l.ambient) < EPSILON
    THEN [l EXCEPT !.ambient = new_ambient, !.is_dirty = TRUE]
    ELSE l

Light_set_ambient(l, new_ambient) ==
    IF distance2(new_ambient, l.ambient) > EPSILON
    THEN [l EXCEPT !.ambient = new_ambient, !.is_dirty = TRUE]
    ELSE l

Light_set_position(l, new_position) ==
    IF distance2(new_position, l.position) > EPSILON
    THEN [l EXCEPT !.position = new_position, !.is_dirty = TRUE]
    ELSE l

Light_set_direction(l, new_dir) ==
    IF distance2(new_dir, l.direction) > EPSILON
    THEN [l EXCEPT !.direction = new_dir, !.is_dirty = TRUE]
    ELSE l

Light_set_color(l, new_color) ==
    IF distance2(new_color, l.color) > EPSILON
    THEN [l EXCEPT !.color = new_color, !.is_dirty = TRUE]
    ELSE l

Light_set_constant_attenuation(l, constant_attenuation) ==
    IF Abs(constant_attenuation - l.constant_attenuation) > EPSILON
    THEN [l EXCEPT !.constant_attenuation = constant_attenuation, !.is_dirty = TRUE]
    ELSE l

Light_set_linear_attenuation(l, linear_attenuation) ==
    IF Abs(linear_attenuation - l.linear_attenuation) > EPSILON
    THEN [l EXCEPT !.linear_attenuation = linear_attenuation, !.is_dirty = TRUE]
    ELSE l

Light_set_exponential_attenuation(l, exponential_attenuation) ==
    IF Abs(exponential_attenuation - l.exponential_attenuation) > EPSILON
    THEN [l EXCEPT !.exponential_attenuation = exponential_attenuation,
                   !.is_dirty = TRUE]
    ELSE l

Light_set_spot_breadth(l, spot_breadth) ==
    IF spot_breadth # l.spot_breadth
    THEN [l EXCEPT !.spot_breadth = spot_breadth, !.is_dirty = TRUE]
    ELSE l

\* TRUE when Light::update issues queue.write_buffer
Light_writes(l) == l.is_dirty

\* The uniform Light::update stages: the fields common to all types, then
\* the fields of the light's type; the others keep what they held.  The
\* fourth attenuation entry is the constant 0 or the cosine of an angle
Light_stage(l) ==
    LET u == [l.uniform EXCEPT !.light_type = LightTag(l.light_type),
                               !.ambient = color3(l.ambient),
                               !.color = color3(l.color)]
        c == Max(l.constant_attenuation, 0)
        li == Max(l.linear_attenuation, 0)
        e == Max(l.exponential_attenuation, 0)
    IN  CASE l.light_type = "Ambient" ->
                [u EXCEPT !.attenuation = <<One, 0, 0, <<"const", 0>> >>]
          [] l.light_type = "Point" ->
                [u EXCEPT !.position = l.position,
                          !.attenuation = <<c, li, e, <<"const", 0>> >>]
          [] l.light_type = "Spot" ->
                [u EXCEPT !.position = l.position,
                          !.direction = normalize(l.direction),
                          !.attenuation = <<c, li, e, <<"cos", l.spot_breadth>> >>]
          [] l.light_type = "Directional" ->
                [u EXCEPT !.direction = normalize(l.direction),
                          !.attenuation = <<c, 0, 0, <<"const", 0>> >>]

\* Light_update leaving the dirty flag set
Light_update_stays_dirty(l) ==
    IF ~l.is_dirty THEN l
    ELSE [l EXCEPT !.uniform = Light_stage(l)]

Light_update(l) ==
    IF ~l.is_dirty THEN l
    ELSE [l EXCEPT !.uniform = Light_stage(l), !.is_dirty = FALSE]

----------------------------------------------------------------------------
\* camera.rs

\* Angles and other scalars are fixed-point with one unit = 2.5e-5, so 1e-4
\* is 4 units; Deg -> Rad is the multiplication by pi/180 (698.13 units per
\* degree)
Rad_from_deg(d) == (d * 69813) \div 100

\* The camera lives on a line: position is a coordinate, look is the
\* direction faced along it (1 or -1), the identity orientation being 1
CameraUniform_new == [position |-> 0, look |-> 1, aspect |-> <<0, 0>>, fov_y |-> 0]

\* update_view_proj(position, projection_matrix(), view_matrix())
CameraUniform_update_view_proj(c) ==
    [position |-> c.position, look |-> c.look, aspect |-> c.aspect, fov_y |-> c.fov_y]

Camera_new(size) ==
    [position |-> 0, look |-> 1, aspect |-> size, fov_y |-> Rad_from_deg(45),
     is_dirty |-> TRUE, uniform_data |-> CameraUniform_new]

Camera_resize(c, size) == [c EXCEPT !.aspect = size, !.is_dirty = TRUE]

Camera_set_fov_y(c, new_fov_y) ==
    IF new_fov_y # c.fov_y THEN [c EXCEPT !.fov_y = new_fov_y, !.is_dirty = TRUE] ELSE c

\* Camera_look_at without the assignment to is_dirty
Camera_look_at_keeps_flag(c, position, at) ==
    [c EXCEPT !.look = IF at > position THEN 1 ELSE -1,
              !.position = position]

\* look_at(position, at, up) with at # position: the camera faces at
Camera_look_at(c, position, at) ==
    [c EXCEPT !.look = IF at > position THEN 1 ELSE -1,
              !.position = position,
              !.is_dirty = TRUE]

\* local_translate by forward along the direction faced
Camera_local_translate(c, forward) ==
    [c EXCEPT !.position = @ + c.look * forward, !.is_dirty = TRUE]

\* rotate_by a yaw of the given number of half turns
Camera_rotate_by(c, yaw) ==
    [c EXCEPT !.look = IF yaw % 2 = 0 THEN @ ELSE -@, !.is_dirty = TRUE]

Camera_writes(c) == c.is_dirty

Camera_update(c) ==
    IF c.is_dirty
    THEN [c EXCEPT !.uniform_data = CameraUniform_update_view_proj(c),
                   !.is_dirty = FALSE]
    ELSE c

CameraController_new(camera) ==
    [keyboard_forward |-> 0, zoom |-> 0, camera |-> camera]

\* process_keyboard for the keys W and S; any other key is left to the caller
CameraController_process_keyboard(cc, key, pressed) ==
    LET amount == IF pressed THEN 1 ELSE 0
    IN  CASE key = "W" -> [cc EXCEPT !.keyboard_forward = amount]
          [] key = "S" -> [cc EXCEPT !.keyboard_forward = -amount]
          [] OTHER -> cc

CameraController_consumes(key) == key \in {"W", "S"}

CameraController_resize(cc, size) == [cc EXCEPT !.camera = Camera_resize(cc.camera, size)]

\* The camera as CameraController::update hands it to Camera::update: dt = 0
\* stands for a frame too short to move the camera (magnitude2 <= 1e-4)
CameraController_prepare(cc, dt) ==
    LET moved == IF cc.keyboard_forward # 0 /\ dt > 0
                 THEN Camera_local_translate(cc.camera, cc.keyboard_forward * dt)
                 ELSE cc.camera
    IN  Camera_set_fov_y(moved, Rad_from_deg(45 + (cc.zoom * 30) \div 100))

CameraController_update(cc, dt) ==
    [cc EXCEPT !.camera = Camera_update(CameraController_prepare(cc, dt))]

----------------------------------------------------------------------------
\* render_pipeline.rs

\* has_pipeline answering false for every name
RenderPipelineVendor_has_pipeline_never(p, named) == FALSE

RenderPipelineVendor_has_pipeline(p, named) == named \in DOMAIN p

\* get_pipeline: the object id of the cached pipeline, 0 for None
RenderPipelineVendor_get_pipeline(p, named) ==
    IF named \in DOMAIN p THEN p[named].obj ELSE 0

PipelineFor_always_replace(pass, obj) ==
    [obj |-> obj, pass |-> pass, depth_write_enabled |-> TRUE,
     blend |-> "REPLACE", depth_compare |-> "LessEqual"]
\* The pipeline state object create_render_pipeline builds for a pass
PipelineFor(pass, obj) ==
    [obj |-> obj,
     pass |-> pass,
     depth_write_enabled |-> (pass = "Ambient"),
     blend |-> IF pass = "Ambient" THEN "REPLACE" ELSE "ONE_ONE_ADD",
     depth_compare |-> "LessEqual"]

\* create_render_pipeline dropping every other pipeline of the cache
RenderPipelineVendor_create_render_pipeline_evicting(p, named, pass, obj) ==
    [x \in {named} |-> PipelineFor(pass, obj)]
\* self.pipelines.insert(named, pipeline): obj is the identity of the new object
RenderPipelineVendor_create_render_pipeline(p, named, pass, obj) ==
    [x \in DOMAIN p \cup {named} |->
        IF x = named THEN PipelineFor(pass, obj) ELSE p[x]]

----------------------------------------------------------------------------
\* model.rs: Material

\* The diffuse, normal and glossiness textures a material may be given
TextureInputs ==
    { <<FALSE, FALSE, FALSE>>, <<TRUE, FALSE, FALSE>>, <<FALSE, TRUE, FALSE>>,
      <<FALSE, FALSE, TRUE>>, <<TRUE, TRUE, TRUE>> }

MaterialProps ==
    { [name |-> n, environment_map |-> e, diffuse_texture |-> t[1],
       normal_texture |-> t[2], glossiness_texture |-> t[3]] :
        n \in {"a", "b"}, e \in BOOLEAN, t \in TextureInputs }

\* Material_base_id ignoring the environment map: no token for it and the
\* textures always from slot 1
Material_base_id_fixed_slots(props) ==
    <<<<"diffuse", 1>>, <<"normal", 3>>, <<"glossiness", 5>>>>
\* Material_base_id with the material's name in the signature
Material_base_id_named(props) ==
    LET env == IF props.environment_map THEN <<<<"environment-map", 1>>>> ELSE <<>>
        offset == IF props.environment_map THEN 3 ELSE 1
    IN  <<<<props.name, 0>>>> \o env
            \o <<<<"diffuse", offset>>, <<"normal", offset + 2>>,
                 <<"glossiness", offset + 4>>>>

\* base_id as Material::new builds it: one token per format! argument pair
Material_base_id(props) ==
    LET env == IF props.environment_map THEN <<<<"environment-map", 1>>>> ELSE <<>>
        offset == IF props.environment_map THEN 3 ELSE 1
    IN  env \o <<<<"diffuse", offset>>, <<"normal", offset + 2>>,
                 <<"glossiness", offset + 4>>>>

\* The two entries create_bind_groups_for pushes for a texture: its view at
\* binding offset and its sampler at offset + 1
Material_create_bind_groups_for(texture, offset) ==
    <<[binding |-> offset, resource |-> <<texture, "view">>],
      [binding |-> offset + 1, resource |-> <<texture, "sampler">>]>>

\* bind_group_entries as Material::new fills it: the uniform buffer at 0, the
\* environment map only when one is given, then the diffuse, normal and
\* glossiness textures (a placeholder for an absent one) from the running offset
Material_bind_group_entries(props) ==
    LET env == IF props.environment_map
               THEN Material_create_bind_groups_for("environment_map", 1)
               ELSE <<>>
        offset == 1 + Len(env)
        diffuse == IF props.diffuse_texture THEN "diffuse_texture"
                   ELSE "Diffuse Placeholder"
        normal == IF props.normal_texture THEN "normal_texture"
                  ELSE "Normal Placeholder"
        glossiness == IF props.glossiness_texture THEN "glossiness_texture"
                      ELSE "Glossiness Placeholder"
    IN  <<[binding |-> 0, resource |-> <<"material_uniform_buffer", "buffer">>]>>
            \o env
            \o Material_create_bind_groups_for(diffuse, offset)
            \o Material_create_bind_groups_for(normal, offset + 2)
            \o Material_create_bind_groups_for(glossiness, offset + 4)

Material_new(props) ==
    [name |-> props.name,
     bind_group_entries |-> Material_bind_group_entries(props),
     environment_map |-> props.environment_map,
     has_textures |-> <<props.diffuse_texture, props.normal_texture,
                        props.glossiness_texture>>,
     ambient_pipeline_id |-> <<"model_ambient", Material_base_id(props)>>,
     lit_pipeline_id |-> <<"model_lit", Material_base_id(props)>>]

Material_pipeline_id(m, pass) ==
    IF pass = "Ambient" THEN m.ambient_pipeline_id ELSE m.lit_pipeline_id

\* The identity of a newly created pipeline object: one no cached pipeline has
NewPipelineObject(p) ==
    CHOOSE n \in 1..(Cardinality(DOMAIN p) + 1) :
        /\ \A x \in DOMAIN p : p[x].obj # n
        /\ \A k \in 1..(n - 1) : \E x \in DOMAIN p : p[x].obj = k

\* One iteration of the loop of Material::prepare_pipelines on the cache p
Material_prepare_pass(p, m, pass) ==
    IF ~RenderPipelineVendor_has_pipeline(p, Material_pipeline_id(m, pass))
    THEN RenderPipelineVendor_create_render_pipeline(
            p, Material_pipeline_id(m, pass), pass, NewPipelineObject(p))
    ELSE p

Material_prepare_pipelines(p, m) ==
    Material_prepare_pass(Material_prepare_pass(p, m, Passes[1]), m, Passes[2])

----------------------------------------------------------------------------
\* model.rs: Model and draw_model

\* An instance is a position; as_data packs it into the instance matrices
Instance_as_data(inst) == [model |-> <<"translation", inst>>, normal_matrix |-> "identity"]

PackInstances(instances) == [i \in DOMAIN instances |-> Instance_as_data(instances[i])]

\* meshes: the material index of each mesh (1-based); instance_data is also
\* the content of instance_buffer, written whenever instance_data is
Model_new(meshes, mats, instances) ==
    [meshes |-> meshes, materials |-> mats, instances |-> instances,
     instance_data |-> PackInstances(instances), is_dirty |-> TRUE]

\* update_instance(at, to), at counted from 0
Model_update_instance(m, at, to) ==
    IF at < Len(m.instances)
    THEN [m EXCEPT !.instances[at + 1] = to, !.is_dirty = TRUE]
    ELSE m

\* update_instances marking the model dirty for any non-empty map
Model_update_instances_marks_any(m, updated_instances) ==
    LET hit == {idx \in DOMAIN updated_instances : idx < Len(m.instances)}
    IN  [m EXCEPT !.instances = [k \in DOMAIN m.instances |->
                                    IF (k - 1) \in hit THEN updated_instances[k - 1]
                                    ELSE m.instances[k]],
                  !.is_dirty = IF DOMAIN updated_instances # {} THEN TRUE ELSE @]

\* update_instances(updated_instances): the map's keys are counted from 0
Model_update_instances(m, updated_instances) ==
    LET hit == {idx \in DOMAIN updated_instances : idx < Len(m.instances)}
    IN  [m EXCEPT !.instances = [k \in DOMAIN m.instances |->
                                    IF (k - 1) \in hit THEN updated_instances[k - 1]
                                    ELSE m.instances[k]],
                  !.is_dirty = IF hit # {} THEN TRUE ELSE @]

RECURSIVE Model_prepare_from(_, _, _)
Model_prepare_from(p, mats, i) ==
    IF i > Len(mats) THEN p
    ELSE Model_prepare_from(Material_prepare_pipelines(p, mats[i]), mats, i + 1)

Model_prepare_pipelines(p, model) == Model_prepare_from(p, model.materials, 1)

Model_writes(m) == m.is_dirty

\* Model_update writing the buffer without clearing the flag
Model_update_keeps_flag(m) ==
    IF ~m.is_dirty THEN m
    ELSE [m EXCEPT !.instance_data = PackInstances(m.instances)]
Model_update(m) ==
    IF ~m.is_dirty THEN m
    ELSE [m EXCEPT !.instance_data = PackInstances(m.instances), !.is_dirty = FALSE]

\* The commands of one mesh draw, after the pipeline bind c
MeshDraw(c) ==
    << c,
       [c EXCEPT !.op = "set_vertex_buffer"],
       [c EXCEPT !.op = "set_vertex_buffer"],
       [c EXCEPT !.op = "set_index_buffer"],
       [c EXCEPT !.op = "set_bind_group"],
       [c EXCEPT !.op = "set_bind_group"],
       [c EXCEPT !.op = "set_bind_group"],
       [c EXCEPT !.op = "draw_indexed"] >>

\* DrawMesh drawing whether or not the pipeline is cached
DrawMesh_unguarded(p, model, mid, k, lid, pass) ==
    LET material == model.materials[model.meshes[k]]
        pipeline == RenderPipelineVendor_get_pipeline(p, Material_pipeline_id(material, pass))
    IN  MeshDraw([Cmd("set_pipeline", "scene") EXCEPT
                      !.pass = pass, !.model = mid, !.mesh = k, !.light = lid,
                      !.pipeline = pipeline])

\* What draw_model records for one mesh: nothing but a diagnostic on stderr
\* when get_pipeline returns None
DrawMesh(p, model, mid, k, lid, pass) ==
    LET material == model.materials[model.meshes[k]]
        pipeline == RenderPipelineVendor_get_pipeline(p, Material_pipeline_id(material, pass))
    IN  IF pipeline # 0
        THEN MeshDraw([Cmd("set_pipeline", "scene") EXCEPT
                           !.pass = pass, !.model = mid, !.mesh = k, !.light = lid,
                           !.pipeline = pipeline])
        ELSE <<>>

RECURSIVE draw_model_from(_, _, _, _, _, _)
draw_model_from(p, model, mid, k, lid, pass) ==
    IF k > Len(model.meshes) THEN <<>>
    ELSE DrawMesh(p, model, mid, k, lid, pass)
            \o draw_model_from(p, model, mid, k + 1, lid, pass)

\* lid = 0 is the scene's aggregate ambient light
draw_model(p, model, mid, lid, pass) == draw_model_from(p, model, mid, 1, lid, pass)

----------------------------------------------------------------------------
\* gpu_state.rs

\* The identity of a newly created texture: one that no live reference holds
NewTexture(used) ==
    CHOOSE n \in 1..(Cardinality(used) + 1) :
        n \notin used /\ \A k \in 1..(n - 1) : k \in used

Texture(kind, id, size) == [kind |-> kind, id |-> id, size |-> size]

\* held: the texture ids that objects outside the GPU context still reference
GpuState_new(size) ==
    [size |-> size, config |-> size,
     depth_attachment |-> Texture("depth", 1, size),
     color_attachment |-> Texture("color", 2, size)]

\* GpuState_resize without the guard on the dimensions
GpuState_resize_unguarded(g, new_size, held) ==
    LET live == held \cup {g.depth_attachment.id, g.color_attachment.id}
        d == NewTexture(live)
        c == NewTexture(live \cup {d})
    IN  [size |-> new_size, config |-> new_size,
         depth_attachment |-> Texture("depth", d, new_size),
         color_attachment |-> Texture("color", c, new_size)]

GpuState_resize(g, new_size, held) ==
    IF new_size[1] > 0 /\ new_size[2] > 0
    THEN LET live == held \cup {g.depth_attachment.id, g.color_attachment.id}
             d == NewTexture(live)
             c == NewTexture(live \cup {d})
         IN  [size |-> new_size, config |-> new_size,
              depth_attachment |-> Texture("depth", d, new_size),
              color_attachment |-> Texture("color", c, new_size)]
    ELSE g

----------------------------------------------------------------------------
\* util.rs: UniformWrapper

UniformWrapper_new(data) == [data |-> data, dirty |-> TRUE, buffer |-> data]

\* UniformWrapper_get_mut without the assignment to dirty
UniformWrapper_get_mut_keeps_flag(u, data) == [u EXCEPT !.data = data]
UniformWrapper_get_mut(u, data) == [u EXCEPT !.data = data, !.dirty = TRUE]

UniformWrapper_writes(u) == u.dirty

UniformWrapper_write(u) ==
    IF u.dirty THEN [u EXCEPT !.buffer = u.data, !.dirty = FALSE] ELSE u

----------------------------------------------------------------------------
\* compositor.rs

\* render_buffers are the offscreen attachments of the GPU context
Compositor_create_textures_bind_group(g) ==
    [color |-> g.color_attachment, depth |-> g.depth_attachment]

Compositor_new(g) ==
    [size |-> g.size,
     uniform |-> UniformWrapper_new(<<0, 0>>),
     textures_bind_group |-> Compositor_create_textures_bind_group(g)]

Compositor_read_camera_properties(c) ==
    [c EXCEPT !.uniform = UniformWrapper_get_mut(c.uniform, c.size)]

\* Compositor_resize keeping the bind group it had
Compositor_resize_keeps_bind_group(c, g, new_size) == [c EXCEPT !.size = new_size]

Compositor_resize(c, g, new_size) ==
    [c EXCEPT !.size = new_size,
              !.textures_bind_group = Compositor_create_textures_bind_group(g)]

Compositor_update(c) == [c EXCEPT !.uniform = UniformWrapper_write(c.uniform)]

\* What Compositor::render records into the frame's encoder
Compositor_render(c) ==
    << [Cmd("begin_render_pass", "compositor") EXCEPT !.color = SwapChain],
       Cmd("set_pipeline", "compositor"),
       [Cmd("set_bind_group", "compositor") EXCEPT
            !.color = c.textures_bind_group.color,
            !.depth = c.textures_bind_group.depth],
       Cmd("draw", "compositor"),
       Cmd("end_render_pass", "compositor") >>

----------------------------------------------------------------------------
\* scene.rs

\* A HashMap over the keys 1..n is iterated in key order: Init draws every
\* assignment of values to keys, which covers every iteration order
KeyOrder(n) == [i \in 1..n |-> i]

RECURSIVE Scene_prepare_from(_, _, _)
Scene_prepare_from(p, ms, i) ==
    IF i > NModels THEN p
    ELSE Scene_prepare_from(Model_prepare_pipelines(p, ms[i]), ms, i + 1)

\* The aggregate ambient light Scene::new builds
Scene_new_ambient_light(ls) == Light_new("Ambient", FoldAmbient(ls, KeyOrder(NLights)))

RECURSIVE DirtyWrites(_, _, _, _)
\* The queue.write_buffer calls of updating f[i], f[i+1], .. f[n] in turn
DirtyWrites(who, f, i, n) ==
    IF i > n THEN <<>>
    ELSE (IF f[i].is_dirty THEN <<WriteBuffer(who, i)>> ELSE <<>>)
            \o DirtyWrites(who, f, i + 1, n)

\* Scene::update: the new camera controller, aggregate light, lights and
\* models, and the buffer writes issued
Scene_update(cc, amb, ls, ms, dt) ==
    LET cam == CameraController_prepare(cc, dt)
        amb1 == Light_set_ambient(amb, FoldAmbient(ls, KeyOrder(NLights)))
    IN  [camera_controller |-> CameraController_update(cc, dt),
         ambient_light |-> Light_update(amb1),
         lights |-> [i \in LightIds |-> Light_update(ls[i])],
         models |-> [m \in ModelIds |-> Model_update(ms[m])],
         log |-> <<Call("Scene.update")>>
                 \o (IF cam.is_dirty THEN <<WriteBuffer("camera", 0)>> ELSE <<>>)
                 \o (IF amb1.is_dirty THEN <<WriteBuffer("ambient_light", 0)>> ELSE <<>>)
                 \o DirtyWrites("light", ls, 1, NLights)
                 \o DirtyWrites("model", ms, 1, NModels)]

RECURSIVE DrawModels(_, _, _, _, _)
\* for model in self.models.values() { draw_model(..) }
DrawModels(p, ms, m, lid, pass) ==
    IF m > NModels THEN <<>>
    ELSE draw_model(p, ms[m], m, lid, pass) \o DrawModels(p, ms, m + 1, lid, pass)

Scene_ambient_pass(p, ms) == DrawModels(p, ms, 1, 0, "Ambient")

RECURSIVE Scene_lit_passes_unfiltered(_, _, _, _)
\* Scene_lit_passes without the filter on the light type
Scene_lit_passes_unfiltered(p, ms, ls, l) ==
    IF l > NLights THEN <<>>
    ELSE DrawModels(p, ms, 1, l, "Lit") \o Scene_lit_passes_unfiltered(p, ms, ls, l + 1)

RECURSIVE Scene_lit_passes(_, _, _, _)
\* for light in lights.values().filter(|l| l.light_type() != Ambient) { .. }
Scene_lit_passes(p, ms, ls, l) ==
    IF l > NLights THEN <<>>
    ELSE (IF ls[l].light_type # "Ambient"
          THEN DrawModels(p, ms, 1, l, "Lit") ELSE <<>>)
            \o Scene_lit_passes(p, ms, ls, l + 1)

\* Scene_render with the lit sub-passes recorded before the ambient sub-pass
Scene_render_lit_first(p, g, ms, ls, acquired) ==
    <<Call("Scene.render"),
      [Cmd("get_current_texture", "Scene.render") EXCEPT !.result = acquired]>>
    \o (IF acquired # "Ok" THEN <<>>
        ELSE << [Cmd("begin_render_pass", "scene") EXCEPT
                    !.color = SwapChain, !.depth = g.depth_attachment] >>
             \o Scene_lit_passes(p, ms, ls, 1)
             \o Scene_ambient_pass(p, ms)
             \o << Cmd("end_render_pass", "scene"),
                   Cmd("submit", "Scene.render"),
                   Cmd("present", "Scene.render") >>)

\* Scene::render: acquired is the result of its get_current_texture
Scene_render(p, g, ms, ls, acquired) ==
    <<Call("Scene.render"),
      [Cmd("get_current_texture", "Scene.render") EXCEPT !.result = acquired]>>
    \o (IF acquired # "Ok" THEN <<>>
        ELSE << [Cmd("begin_render_pass", "scene") EXCEPT
                    !.color = SwapChain, !.depth = g.depth_attachment] >>
             \o Scene_ambient_pass(p, ms)
             \o Scene_lit_passes(p, ms, ls, 1)
             \o << Cmd("end_render_pass", "scene"),
                   Cmd("submit", "Scene.render"),
                   Cmd("present", "Scene.render") >>)

\* Scene::resize
Scene_resize(cc, new_size) == CameraController_resize(cc, new_size)

----------------------------------------------------------------------------
\* The scenes the factory passed to run may build

InitialSize == <<800, 600>>

MaterialEnv ==
    Material_new([name |-> "a", environment_map |-> TRUE, diffuse_texture |-> FALSE,
                  normal_texture |-> FALSE, glossiness_texture |-> FALSE])
MaterialPlain ==
    Material_new([name |-> "b", environment_map |-> FALSE, diffuse_texture |-> TRUE,
                  normal_texture |-> FALSE, glossiness_texture |-> FALSE])

\* Model m of the scene: odd keys hold a one-mesh model, even keys a model of
\* two meshes with different materials
SceneModel(m) ==
    IF m % 2 = 1 THEN Model_new(<<1>>, <<MaterialEnv>>, <<0, 0>>)
    ELSE Model_new(<<1, 2>>, <<MaterialEnv, MaterialPlain>>, <<0>>)

CallbackAmbients == {<<0, 0, 0>>, <<3, 0, 0>>}
LightInputs == {Light_new(t, <<3, 0, 0>>) : t \in LightTypes}

EmptyCache == [x \in {} |-> 0]

\* What the callback passed to run does to the scene in one frame
NoCall == [op |-> "none", light |-> 0, ambient |-> Zero3]
CallbackCalls ==
    {NoCall} \cup {[op |-> "set_ambient", light |-> 1, ambient |-> a] :
                        a \in CallbackAmbients}

Callback(ls, call) ==
    IF call.op = "set_ambient"
    THEN [ls EXCEPT ![call.light] = Light_set_ambient(@, call.ambient)]
    ELSE ls

\* The models after the callback: scene.models.insert(key, model)
CallbackModels(ms, call) ==
    IF call.op = "insert_model"
    THEN [ms EXCEPT ![call.key] = call.model]
    ELSE ms

----------------------------------------------------------------------------
\* app.rs: run

Init ==
    /\ gpu = GpuState_new(InitialSize)
    /\ lights \in [LightIds -> LightInputs]
    /\ models = [m \in ModelIds |-> SceneModel(m)]
    /\ pipelines = Scene_prepare_from(EmptyCache, models, 1)
    /\ camera_controller =
            CameraController_resize(CameraController_new(Camera_new(InitialSize)),
                                    InitialSize)
    /\ ambient_light = Scene_new_ambient_light(lights)
    /\ scene_size = InitialSize
    /\ compositor = Compositor_new(gpu)
    /\ control_flow = "Poll"
    /\ cmds = <<>>
    /\ materials = <<>>
    /\ hist = <<>>

\* The texture ids the compositor's bind group keeps alive
Held == {compositor.textures_bind_group.color.id, compositor.textures_bind_group.depth.id}

ResizeCall(who, size) == [Call(who) EXCEPT !.size = size]

\* The size the Lost arm re-applies, with the size of the scene in its place
LostSize_scene == scene_size

\* let size = gpu_state.size();
LostSize == gpu.size

\* RedrawControlFlow exiting on every surface error
RedrawControlFlow_any_error(surf) == IF surf # "Ok" THEN "Exit" ELSE "Poll"

\* *control_flow = ControlFlow::Poll, then Exit in the OutOfMemory arm only
RedrawControlFlow(surf) == IF surf = "OutOfMemory" THEN "Exit" ELSE "Poll"

\* Event::RedrawRequested
RedrawRequested(call, dt, surf, acquired) ==
    /\ control_flow = "Poll"
    /\ LET u == Scene_update(camera_controller, ambient_light,
                             Callback(lights, call), CallbackModels(models, call), dt)
           c1 == Compositor_read_camera_properties(compositor)
           c2 == Compositor_update(c1)
           head == <<Call("update")>> \o u.log
                   \o <<Call("Compositor.read_camera_properties"),
                        Call("Compositor.update")>>
                   \o (IF c1.uniform.dirty THEN <<WriteBuffer("compositor", 0)>> ELSE <<>>)
                   \o <<[Cmd("get_current_texture", "run") EXCEPT !.result = surf]>>
       IN  /\ ambient_light' = u.ambient_light
           /\ lights' = u.lights
           /\ models' = u.models
           /\ control_flow' = RedrawControlFlow(surf)
           /\ CASE surf = "Ok" ->
                    /\ cmds' = head
                            \o Scene_render(pipelines, gpu, u.models, u.lights, acquired)
                            \o <<Call("Compositor.render")>>
                            \o Compositor_render(c2)
                            \o <<Cmd("submit", "run"), Cmd("present", "run")>>
                    /\ camera_controller' = u.camera_controller
                    /\ compositor' = c2
                    /\ UNCHANGED <<gpu, scene_size>>
                [] surf = "Lost" ->
                    LET size == LostSize
                        g == GpuState_resize(gpu, size, Held)
                    IN  /\ gpu' = g
                        /\ scene_size' = size
                        /\ camera_controller' = Scene_resize(u.camera_controller, size)
                        /\ compositor' = Compositor_resize(c2, g, size)
                        /\ cmds' = head \o << ResizeCall("GpuState.resize", size),
                                              ResizeCall("Scene.resize", size),
                                              ResizeCall("Compositor.resize", size) >>
                [] surf = "OutOfMemory" ->
                    /\ cmds' = head
                    /\ camera_controller' = u.camera_controller
                    /\ compositor' = c2
                    /\ UNCHANGED <<gpu, scene_size>>
                [] OTHER ->
                    /\ cmds' = head \o <<Cmd("eprintln", "run")>>
                    /\ camera_controller' = u.camera_controller
                    /\ compositor' = c2
                    /\ UNCHANGED <<gpu, scene_size>>
    /\ UNCHANGED <<pipelines, materials, hist>>

\* WindowEvent::Resized
Resized(physical_size) ==
    /\ control_flow = "Poll"
    /\ LET g == GpuState_resize(gpu, physical_size, Held)
       IN  /\ gpu' = g
           /\ scene_size' = physical_size
           /\ camera_controller' = Scene_resize(camera_controller, physical_size)
           /\ compositor' = Compositor_resize(compositor, g, physical_size)
           /\ cmds' = << ResizeCall("GpuState.resize", physical_size),
                         ResizeCall("Scene.resize", physical_size),
                         ResizeCall("Compositor.resize", physical_size) >>
    /\ UNCHANGED <<pipelines, ambient_light, lights, models, control_flow,
                   materials, hist>>

\* WindowEvent::ScaleFactorChanged
ScaleFactorChanged(new_inner_size) ==
    /\ control_flow = "Poll"
    /\ LET g == GpuState_resize(gpu, new_inner_size, Held)
       IN  /\ gpu' = g
           /\ scene_size' = new_inner_size
           /\ camera_controller' = Scene_resize(camera_controller, new_inner_size)
           /\ compositor' = Compositor_resize(compositor, g, new_inner_size)
           /\ cmds' = << ResizeCall("GpuState.resize", new_inner_size),
                         ResizeCall("Scene.resize", new_inner_size),
                         ResizeCall("Compositor.resize", new_inner_size) >>
    /\ UNCHANGED <<pipelines, ambient_light, lights, models, control_flow,
                   materials, hist>>

\* WindowEvent::KeyboardInput: scene.input takes the camera keys, Escape exits
KeyboardInput(key, pressed) ==
    /\ control_flow = "Poll"
    /\ camera_controller' = CameraController_process_keyboard(camera_controller, key, pressed)
    /\ control_flow' = IF ~CameraController_consumes(key) /\ key = "Escape"
                       THEN "Exit" ELSE control_flow
    /\ cmds' = <<>>
    /\ UNCHANGED <<gpu, pipelines, ambient_light, lights, models, scene_size,
                   compositor, materials, hist>>

\* WindowEvent::CloseRequested
CloseRequested ==
    /\ control_flow = "Poll"
    /\ control_flow' = "Exit"
    /\ cmds' = <<>>
    /\ UNCHANGED <<gpu, pipelines, camera_controller, ambient_light, lights, models,
                   scene_size, compositor, materials, hist>>

Next ==
    \/ \E call \in CallbackCalls, dt \in {1}, surf \in SurfaceResults :
            \E acquired \in (IF surf = "Ok" THEN AcquireResults ELSE {"Ok"}) :
                RedrawRequested(call, dt, surf, acquired)
    \/ \E size \in SizeInputs : Resized(size)
    \/ \E size \in SizeInputs : ScaleFactorChanged(size)
    \/ \E key \in {"Escape"}, pressed \in BOOLEAN : KeyboardInput(key, pressed)
    \/ CloseRequested

Spec == Init /\ [][Next]_vars

----------------------------------------------------------------------------
\* The dirty-flag objects driven through their own operations: one
\* UniformWrapper (the compositor's), the camera, light 1 and model 1.
\* hist[o] holds, for the update calls made on o since it was last mutated,
\* whether o was dirty before the call and how many buffer writes the call
\* issued (the last two calls are kept).

DirtyObjects == {"uniform", "camera", "light", "model"}

Recorded(h, dirty, writes) ==
    LET e == [dirty |-> dirty, writes |-> IF writes THEN 1 ELSE 0]
    IN  IF Len(h) < 2 THEN Append(h, e) ELSE <<h[2], e>>

InitDirty ==
    /\ gpu = GpuState_new(InitialSize)
    /\ \E t \in {"Ambient", "Point"} : lights = [l \in LightIds |-> Light_new(t, Zero3)]
    /\ models = [m \in ModelIds |-> SceneModel(m)]
    /\ pipelines = Scene_prepare_from(EmptyCache, models, 1)
    /\ camera_controller =
            CameraController_resize(CameraController_new(Camera_new(InitialSize)),
                                    InitialSize)
    /\ ambient_light = Scene_new_ambient_light(lights)
    /\ scene_size = InitialSize
    /\ compositor = Compositor_new(gpu)
    /\ control_flow = "Poll"
    /\ cmds = <<>>
    /\ materials = <<>>
    /\ hist = [o \in DirtyObjects |-> <<>>]

DirtyFrame == <<gpu, pipelines, ambient_light, scene_size, control_flow, cmds, materials>>

\* lights[1].set_ambient(v)
DirtySetAmbient(v) ==
    LET l == Light_set_ambient(lights[1], v)
    IN  /\ lights' = [lights EXCEPT ![1] = l]
        /\ hist' = [hist EXCEPT !["light"] = IF l.is_dirty THEN <<>> ELSE @]
        /\ UNCHANGED <<DirtyFrame, camera_controller, models, compositor>>

\* lights[1].update(queue)
DirtyLightUpdate ==
    /\ hist' = [hist EXCEPT !["light"] =
                    Recorded(@, lights[1].is_dirty, Light_writes(lights[1]))]
    /\ lights' = [lights EXCEPT ![1] = Light_update(@)]
    /\ UNCHANGED <<DirtyFrame, camera_controller, models, compositor>>

\* camera.resize(width, height)
DirtyCameraResize(size) ==
    /\ camera_controller' = [camera_controller EXCEPT !.camera = Camera_resize(@, size)]
    /\ hist' = [hist EXCEPT !["camera"] = <<>>]
    /\ UNCHANGED <<DirtyFrame, lights, models, compositor>>

\* camera.update(queue)
DirtyCameraUpdate ==
    /\ hist' = [hist EXCEPT !["camera"] =
                    Recorded(@, camera_controller.camera.is_dirty,
                             Camera_writes(camera_controller.camera))]
    /\ camera_controller' = [camera_controller EXCEPT !.camera = Camera_update(@)]
    /\ UNCHANGED <<DirtyFrame, lights, models, compositor>>

\* models[1].update_instance(at, to)
DirtyUpdateInstance(at, to) ==
    LET m == Model_update_instance(models[1], at, to)
    IN  /\ models' = [models EXCEPT ![1] = m]
        /\ hist' = [hist EXCEPT !["model"] = IF m.is_dirty THEN <<>> ELSE @]
        /\ UNCHANGED <<DirtyFrame, lights, camera_controller, compositor>>

\* models[1].update(queue)
DirtyModelUpdate ==
    /\ hist' = [hist EXCEPT !["model"] =
                    Recorded(@, models[1].is_dirty, Model_writes(models[1]))]
    /\ models' = [models EXCEPT ![1] = Model_update(@)]
    /\ UNCHANGED <<DirtyFrame, lights, camera_controller, compositor>>

\* *uniform.get_mut() = data
DirtyGetMut(data) ==
    /\ compositor' = [compositor EXCEPT !.uniform = UniformWrapper_get_mut(@, data)]
    /\ hist' = [hist EXCEPT !["uniform"] = <<>>]
    /\ UNCHANGED <<DirtyFrame, lights, camera_controller, models>>

\* uniform.write(queue)
DirtyUniformWrite ==
    /\ hist' = [hist EXCEPT !["uniform"] =
                    Recorded(@, compositor.uniform.dirty,
                             UniformWrapper_writes(compositor.uniform))]
    /\ compositor' = [compositor EXCEPT !.uniform = UniformWrapper_write(@)]
    /\ UNCHANGED <<DirtyFrame, lights, camera_controller, models>>

NextDirty ==
    \/ \E v \in CallbackAmbients : DirtySetAmbient(v)
    \/ DirtyLightUpdate
    \/ \E size \in SizeInputs : DirtyCameraResize(size)
    \/ DirtyCameraUpdate
    \/ \E at \in 0..2, to \in {0, 1} : DirtyUpdateInstance(at, to)
    \/ DirtyModelUpdate
    \/ \E data \in SizeInputs : DirtyGetMut(data)
    \/ DirtyUniformWrite

SpecDirty == InitDirty /\ [][NextDirty]_vars

----------------------------------------------------------------------------
\* The scene driven through set_ambient on its lights and Scene::update.
\* hist tells whether the last operation was Scene::update.

InitScene ==
    /\ gpu = GpuState_new(InitialSize)
    /\ lights \in [LightIds -> {Light_new(t, a) : t \in {"Ambient", "Spot"},
                                                 a \in AmbientInputs}]
    /\ models = [m \in ModelIds |-> SceneModel(m)]
    /\ pipelines = Scene_prepare_from(EmptyCache, models, 1)
    /\ camera_controller =
            CameraController_resize(CameraController_new(Camera_new(InitialSize)),
                                    InitialSize)
    /\ ambient_light = Scene_new_ambient_light(lights)
    /\ scene_size = InitialSize
    /\ compositor = Compositor_new(gpu)
    /\ control_flow = "Poll"
    /\ cmds = <<>>
    /\ materials = <<>>
    /\ hist = "new"

\* scene.lights.get_mut(&l).set_ambient(v)
SceneSetAmbient(l, v) ==
    /\ lights' = [lights EXCEPT ![l] = Light_set_ambient(@, v)]
    /\ hist' = "set_ambient"
    /\ UNCHANGED <<gpu, pipelines, camera_controller, ambient_light, models,
                   scene_size, compositor, control_flow, cmds, materials>>

\* scene.update(gpu_state, dt)
SceneUpdate(dt) ==
    LET u == Scene_update(camera_controller, ambient_light, lights, models, dt)
    IN  /\ camera_controller' = u.camera_controller
        /\ ambient_light' = u.ambient_light
        /\ lights' = u.lights
        /\ models' = u.models
        /\ cmds' = u.log
        /\ hist' = "update"
        /\ UNCHANGED <<gpu, pipelines, scene_size, compositor, control_flow, materials>>

NextScene ==
    \/ \E l \in LightIds, v \in AmbientInputs : SceneSetAmbient(l, v)
    \/ \E dt \in {1} : SceneUpdate(dt)

SpecScene == InitScene /\ [][NextScene]_vars

----------------------------------------------------------------------------
\* Materials and the pipeline cache driven through Material::new and
\* Material::prepare_pipelines.  hist.prepared holds the materials prepared
\* so far; hist.last describes the last prepare_pipelines call: the material,
\* the cache before the call, and whether a material with the same two
\* pipeline ids had been prepared before.

SameIds(m1, m2) ==
    /\ m1.ambient_pipeline_id = m2.ambient_pipeline_id
    /\ m1.lit_pipeline_id = m2.lit_pipeline_id

InitPipe ==
    /\ gpu = GpuState_new(InitialSize)
    /\ lights = [l \in LightIds |-> Light_new("Point", Zero3)]
    /\ models = [m \in ModelIds |-> SceneModel(m)]
    /\ pipelines = EmptyCache
    /\ camera_controller =
            CameraController_resize(CameraController_new(Camera_new(InitialSize)),
                                    InitialSize)
    /\ ambient_light = Scene_new_ambient_light(lights)
    /\ scene_size = InitialSize
    /\ compositor = Compositor_new(gpu)
    /\ control_flow = "Poll"
    /\ cmds = <<>>
    /\ materials = <<>>
    /\ hist = [prepared |-> {}, last |-> [m |-> 0, before |-> EmptyCache, repeat |-> FALSE]]

PipeFrame == <<gpu, camera_controller, ambient_light, lights, models, scene_size,
               compositor, control_flow, cmds>>

\* Material::new(device, queue, props)
PipeMaterialNew(props) ==
    /\ Len(materials) < MaxMaterials
    /\ materials' = Append(materials, Material_new(props))
    /\ UNCHANGED <<PipeFrame, pipelines, hist>>

\* materials[i].prepare_pipelines(gpu_state)
PipePrepare(i) ==
    /\ i \in DOMAIN materials
    /\ pipelines' = Material_prepare_pipelines(pipelines, materials[i])
    /\ hist' = [prepared |-> hist.prepared \cup {i},
                last |-> [m |-> i, before |-> pipelines,
                          repeat |-> \E j \in hist.prepared :
                                        SameIds(materials[j], materials[i])]]
    /\ UNCHANGED <<PipeFrame, materials>>

NextPipe ==
    \/ \E props \in MaterialProps : PipeMaterialNew(props)
    \/ \E i \in 1..MaxMaterials : PipePrepare(i)

SpecPipe == InitPipe /\ [][NextPipe]_vars

----------------------------------------------------------------------------
\* Redraws of a scene whose callback inserts models after Scene::new has
\* prepared the pipelines: the scene starts with models that all use the
\* material with an environment map, and the callback may insert a model
\* holding a material whose pipelines were never prepared.

DrawCalls ==
    {[op |-> "insert_model", key |-> m, model |-> SceneModel(k)] :
        m \in ModelIds, k \in {1, 2}}

InitDraw ==
    /\ gpu = GpuState_new(InitialSize)
    /\ lights \in [LightIds -> LightInputs]
    /\ models = [m \in ModelIds |-> SceneModel(1)]
    /\ pipelines = Scene_prepare_from(EmptyCache, models, 1)
    /\ camera_controller =
            CameraController_resize(CameraController_new(Camera_new(InitialSize)),
                                    InitialSize)
    /\ ambient_light = Scene_new_ambient_light(lights)
    /\ scene_size = InitialSize
    /\ compositor = Compositor_new(gpu)
    /\ control_flow = "Poll"
    /\ cmds = <<>>
    /\ materials = <<>>
    /\ hist = <<>>

NextDraw ==
    \E call \in DrawCalls, dt \in {1}, surf \in SurfaceResults :
        \E acquired \in (IF surf = "Ok" THEN AcquireResults ELSE {"Ok"}) :
            RedrawRequested(call, dt, surf, acquired)

SpecDraw == InitDraw /\ [][NextDraw]_vars

----------------------------------------------------------------------------
\* Model 1 driven through update_instance, update_instances and update.
\* hist describes the last call: the operation, the map it was given
\* (update_instance(at, to) is recorded as the map at -> to), the model
\* before the call and the number of buffer writes the call issued.

InstanceKeys == 0..2
InstanceInputs == {1, 2}
InstanceMaps == UNION {[D -> InstanceInputs] : D \in SUBSET InstanceKeys}
NoMap == [idx \in {} |-> 0]

InitModel ==
    /\ gpu = GpuState_new(InitialSize)
    /\ lights = [l \in LightIds |-> Light_new("Point", Zero3)]
    /\ models = [m \in ModelIds |-> SceneModel(m)]
    /\ pipelines = Scene_prepare_from(EmptyCache, models, 1)
    /\ camera_controller =
            CameraController_resize(CameraController_new(Camera_new(InitialSize)),
                                    InitialSize)
    /\ ambient_light = Scene_new_ambient_light(lights)
    /\ scene_size = InitialSize
    /\ compositor = Compositor_new(gpu)
    /\ control_flow = "Poll"
    /\ cmds = <<>>
    /\ materials = <<>>
    /\ hist = [op |-> "new", arg |-> NoMap, before |-> models[1], writes |-> 0]

\* A call op(arg) on models[1] that turns it into m and writes the instance
\* buffer `writes` times
ModelCalled(op, arg, m, writes) ==
    /\ models' = [models EXCEPT ![1] = m]
    /\ hist' = [op |-> op, arg |-> arg, before |-> models[1], writes |-> writes]
    /\ UNCHANGED <<gpu, pipelines, camera_controller, ambient_light, lights, scene_size,
                   compositor, control_flow, cmds, materials>>

\* models[1].update_instance(at, to), models[1].update_instances(&map) and
\* models[1].update(queue)
NextModel ==
    \/ \E at \in InstanceKeys, to \in InstanceInputs :
            ModelCalled("update_instance", [idx \in {at} |-> to],
                        Model_update_instance(models[1], at, to), 0)
    \/ \E map \in InstanceMaps :
            ModelCalled("update_instances", map,
                        Model_update_instances(models[1], map), 0)
    \/ ModelCalled("update", NoMap, Model_update(models[1]),
                   IF Model_writes(models[1]) THEN 1 ELSE 0)

SpecModel == InitModel /\ [][NextModel]_vars

----------------------------------------------------------------------------
\* The camera driven through its mutators, Camera::update and the frame's
\* CameraController::update.  hist describes the last call (op, arg, and the
\* camera's fov_y and dirty flag before it), the last call that mutated the
\* camera (mutator) and the buffer writes of the updates made since then
\* (the first two are kept).

MaxPosition == 1
FovInputs == {Rad_from_deg(45), Rad_from_deg(45) + 1, Rad_from_deg(45) + 10}
CameraMutators == {"look_at", "local_translate", "rotate_by", "resize"}

InitCamera ==
    /\ gpu = GpuState_new(InitialSize)
    /\ lights = [l \in LightIds |-> Light_new("Point", Zero3)]
    /\ models = [m \in ModelIds |-> SceneModel(m)]
    /\ pipelines = Scene_prepare_from(EmptyCache, models, 1)
    /\ camera_controller = CameraController_new(Camera_new(InitialSize))
    /\ ambient_light = Scene_new_ambient_light(lights)
    /\ scene_size = InitialSize
    /\ compositor = Compositor_new(gpu)
    /\ control_flow = "Poll"
    /\ cmds = <<>>
    /\ materials = <<>>
    /\ hist = [op |-> "new", arg |-> 0, fov_y |-> 0, was_dirty |-> FALSE,
               mutator |-> "new", updates |-> <<>>]

\* A call op(arg) that turns the camera into c: c differs from the camera
\* when the call mutated it
CameraMutated(op, arg, c) ==
    /\ camera_controller' = [camera_controller EXCEPT !.camera = c]
    /\ hist' = [op |-> op, arg |-> arg,
                fov_y |-> camera_controller.camera.fov_y,
                was_dirty |-> camera_controller.camera.is_dirty,
                mutator |-> IF c # camera_controller.camera \/ op \in CameraMutators
                            THEN op ELSE hist.mutator,
                updates |-> IF c # camera_controller.camera \/ op \in CameraMutators
                            THEN <<>> ELSE hist.updates]
    /\ UNCHANGED <<gpu, pipelines, ambient_light, lights, models, scene_size,
                   compositor, control_flow, cmds, materials>>

\* An update call that writes the buffer `writes` times
CameraUpdated(op, c, writes) ==
    /\ camera_controller' = [camera_controller EXCEPT !.camera = c]
    /\ hist' = [hist EXCEPT !.op = op, !.arg = 0,
                            !.fov_y = camera_controller.camera.fov_y,
                            !.was_dirty = camera_controller.camera.is_dirty,
                            !.updates = IF Len(@) < 2 THEN Append(@, writes) ELSE @]
    /\ UNCHANGED <<gpu, pipelines, ambient_light, lights, models, scene_size,
                   compositor, control_flow, cmds, materials>>

\* camera.local_translate(translation)
CameraLocalTranslate(forward) ==
    LET c == Camera_local_translate(camera_controller.camera, forward)
    IN  /\ c.position \in -MaxPosition..MaxPosition
        /\ CameraMutated("local_translate", forward, c)

\* The frame's CameraController::update(queue, dt): when its set_fov_y
\* changes the camera the call is a mutation followed by one update
CameraControllerUpdate(dt) ==
    LET prepared == CameraController_prepare(camera_controller, dt)
        c == CameraController_update(camera_controller, dt).camera
        writes == IF Camera_writes(prepared) THEN 1 ELSE 0
    IN  IF prepared = camera_controller.camera
        THEN CameraUpdated("frame", c, writes)
        ELSE /\ camera_controller' = [camera_controller EXCEPT !.camera = c]
             /\ hist' = [op |-> "frame", arg |-> 0,
                         fov_y |-> camera_controller.camera.fov_y,
                         was_dirty |-> camera_controller.camera.is_dirty,
                         mutator |-> "set_fov_y", updates |-> <<writes>>]
             /\ UNCHANGED <<gpu, pipelines, ambient_light, lights, models, scene_size,
                   compositor, control_flow, cmds, materials>>

\* One disjunct per operation of Camera: look_at, local_translate, rotate_by,
\* the resize of a resize event (Scene::resize -> CameraController::resize),
\* set_fov_y, update, and the frame's CameraController::update
NextCamera ==
    \/ \E position, at \in -MaxPosition..MaxPosition :
            /\ position # at
            /\ CameraMutated("look_at", position,
                             Camera_look_at(camera_controller.camera, position, at))
    \/ \E forward \in {-1, 1} : CameraLocalTranslate(forward)
    \/ \E yaw \in {1, 2} :
            CameraMutated("rotate_by", yaw,
                          Camera_rotate_by(camera_controller.camera, yaw))
    \/ \E size \in SizeInputs :
            CameraMutated("resize", 0,
                          CameraController_resize(camera_controller, size).camera)
    \/ \E new_fov_y \in FovInputs :
            CameraMutated("set_fov_y", new_fov_y,
                          Camera_set_fov_y(camera_controller.camera, new_fov_y))
    \/ CameraUpdated("update", Camera_update(camera_controller.camera),
                     IF Camera_writes(camera_controller.camera) THEN 1 ELSE 0)
    \/ \E dt \in {1} : CameraControllerUpdate(dt)

SpecCamera == InitCamera /\ [][NextCamera]_vars

----------------------------------------------------------------------------
\* Light 1 driven through its constructors, its setters and update.  hist
\* describes the last call: the operation, its argument (a scalar s is
\* recorded as <<s, 0, 0>>) and the light before the call.

SpotBreadth == 75 * One
LightDescriptors ==
    {LightDescriptor(Zero3, <<60, 80, 0>>, Zero3,
                     <<UnitLength, UnitLength, UnitLength>>, c, 0, 0, SpotBreadth) :
        c \in {One, -One}}

InitLight ==
    /\ gpu = GpuState_new(InitialSize)
    /\ \E t \in {"Spot", "Ambient"}, desc \in LightDescriptors :
            lights = [l \in LightIds |-> Light_new_from(t, desc)]
    /\ models = [m \in ModelIds |-> SceneModel(m)]
    /\ pipelines = Scene_prepare_from(EmptyCache, models, 1)
    /\ camera_controller =
            CameraController_resize(CameraController_new(Camera_new(InitialSize)),
                                    InitialSize)
    /\ ambient_light = Scene_new_ambient_light(lights)
    /\ scene_size = InitialSize
    /\ compositor = Compositor_new(gpu)
    /\ control_flow = "Poll"
    /\ cmds = <<>>
    /\ materials = <<>>
    /\ hist = [op |-> "new", arg |-> Zero3, before |-> lights[1]]

\* A call op(arg) on lights[1] that turns it into l
LightCalled(op, arg, l) ==
    /\ lights' = [lights EXCEPT ![1] = l]
    /\ hist' = [op |-> op, arg |-> arg, before |-> lights[1]]
    /\ UNCHANGED <<gpu, pipelines, camera_controller, ambient_light, models, scene_size,
                   compositor, control_flow, cmds, materials>>

\* One disjunct per setter of Light, then update
NextLight ==
    \/ \E v \in {<<1, 0, 0>>, <<3, 0, 0>>} :
            LightCalled("set_ambient", v, Light_set_ambient(lights[1], v))
    \/ \E v \in {<<3, 0, 0>>} :
            LightCalled("set_position", v, Light_set_position(lights[1], v))
    \/ \E v \in {<<2 * UnitLength, 0, 0>>, <<0, UnitLength + 1, 0>>} :
            LightCalled("set_direction", v, Light_set_direction(lights[1], v))
    \/ \E v \in {<<3, 0, 0>>} :
            LightCalled("set_color", v, Light_set_color(lights[1], v))
    \/ \E x \in {-One, One + 2} :
            LightCalled("set_constant_attenuation", <<x, 0, 0>>,
                        Light_set_constant_attenuation(lights[1], x))
    \/ \E x \in {-8} :
            LightCalled("set_linear_attenuation", <<x, 0, 0>>,
                        Light_set_linear_attenuation(lights[1], x))
    \/ \E x \in {-8} :
            LightCalled("set_exponential_attenuation", <<x, 0, 0>>,
                        Light_set_exponential_attenuation(lights[1], x))
    \/ \E x \in {SpotBreadth + 1} :
            LightCalled("set_spot_breadth", <<x, 0, 0>>,
                        Light_set_spot_breadth(lights[1], x))
    \/ LightCalled("update", Zero3, Light_update(lights[1]))

SpecLight == InitLight /\ [][NextLight]_vars

----------------------------------------------------------------------------
\* Reading the command log of the last event handler

Cmds == DOMAIN cmds

IsSceneBind(i, pass) ==
    cmds[i].op = "set_pipeline" /\ cmds[i].who = "scene" /\ cmds[i].pass = pass

\* The handler was a redraw whose get_current_texture in run returned r
RedrawAcquired(r) ==
    \E i \in Cmds : cmds[i].op = "get_current_texture" /\ cmds[i].who = "run"
                    /\ cmds[i].result = r

\* Scene::render recorded its render pass
ScenePassRecorded ==
    \E i \in Cmds : cmds[i].op = "begin_render_pass" /\ cmds[i].who = "scene"

Count(op, who) == Cardinality({i \in Cmds : cmds[i].op = op /\ cmds[i].who = who})
CountOp(op) == Cardinality({i \in Cmds : cmds[i].op = op})
IndexOf(op, who) == CHOOSE i \in Cmds : cmds[i].op = op /\ cmds[i].who = who

LitLights == {l \in LightIds : lights[l].light_type # "Ambient"}

HasBothPipelines(material) ==
    /\ RenderPipelineVendor_has_pipeline(pipelines, material.ambient_pipeline_id)
    /\ RenderPipelineVendor_has_pipeline(pipelines, material.lit_pipeline_id)

----------------------------------------------------------------------------
\* C1: in the render pass Scene::render records, every pipeline bind of an
\* ambient draw comes strictly before every pipeline bind of a lit draw.
C1_AmbientBeforeLit ==
    \A i, j \in Cmds :
        IsSceneBind(i, "Ambient") /\ IsSceneBind(j, "Lit") => i < j

\* A frame with ambient binds for two models and lit binds for two lights
C1_Witness ==
    /\ \E i, j \in Cmds : /\ IsSceneBind(i, "Ambient") /\ IsSceneBind(j, "Ambient")
                          /\ cmds[i].model # cmds[j].model
    /\ \E i, j \in Cmds : /\ IsSceneBind(i, "Lit") /\ IsSceneBind(j, "Lit")
                          /\ cmds[i].light # cmds[j].light

\* C2: when Scene::render records its pass, a mesh whose material has both
\* pipelines cached gets exactly 1 + L pipeline binds, L the number of lights
\* that are not of type Ambient: one ambient bind with the aggregate light
\* and one lit bind per such light, none with a light of type Ambient.
C2_BindsPerMesh ==
    ScenePassRecorded =>
        \A m \in ModelIds : \A k \in DOMAIN models[m].meshes :
            HasBothPipelines(models[m].materials[models[m].meshes[k]]) =>
                LET binds == {i \in Cmds : /\ cmds[i].op = "set_pipeline"
                                          /\ cmds[i].who = "scene"
                                          /\ cmds[i].model = m /\ cmds[i].mesh = k}
                IN  /\ Cardinality(binds) = 1 + Cardinality(LitLights)
                    /\ Cardinality({i \in binds : cmds[i].pass = "Ambient"
                                                  /\ cmds[i].light = 0}) = 1
                    /\ \A l \in LitLights :
                         Cardinality({i \in binds : cmds[i].pass = "Lit"
                                                    /\ cmds[i].light = l}) = 1
                    /\ \A i \in binds : cmds[i].pass = "Lit" =>
                                            cmds[i].light \in LitLights

\* A recorded frame of a scene that holds an Ambient light and a lit light
C2_Witness ==
    /\ ScenePassRecorded
    /\ \E l \in LightIds : lights[l].light_type = "Ambient"
    /\ Cardinality(LitLights) = 1
    /\ \E i \in Cmds : IsSceneBind(i, "Lit")

\* C3: for each object with a dirty flag, of two consecutive update (write)
\* calls with no mutation between them the second issues no buffer write,
\* and when the object was dirty before the first call the two calls issue
\* exactly one write.
C3_OneWritePerMutation ==
    \A o \in DirtyObjects :
        Len(hist[o]) = 2 =>
            /\ hist[o][2].writes = 0
            /\ hist[o][1].dirty => hist[o][1].writes + hist[o][2].writes = 1

\* Every object was dirty, then updated twice in a row
C3_Witness ==
    \A o \in DirtyObjects :
        /\ Len(hist[o]) = 2
        /\ hist[o][1].dirty
        /\ hist[o][1].writes = 1

C5_PrepareIdempotent ==
    hist.last.repeat => pipelines = hist.last.before

\* A second prepare_pipelines, made through another material with the same ids
C5_Witness ==
    /\ hist.last.repeat
    /\ \E j \in hist.prepared :
         /\ j # hist.last.m
         /\ SameIds(materials[j], materials[hist.last.m])
    /\ Cardinality(DOMAIN pipelines) = 2

\* The texture-presence signature of a material
Presence(m) == <<m.environment_map, m.has_textures>>

\* C6: two materials with the same texture-presence signature have the same
\* ambient and the same lit pipeline id, and once both are prepared each pass
\* resolves to one and the same cached pipeline object for both.
C6_SameSignatureSharesPipelines ==
    \A i, j \in DOMAIN materials :
        Presence(materials[i]) = Presence(materials[j]) =>
            /\ SameIds(materials[i], materials[j])
            /\ (i \in hist.prepared /\ j \in hist.prepared) =>
                 \A k \in DOMAIN Passes :
                    LET a == RenderPipelineVendor_get_pipeline(
                                pipelines, Material_pipeline_id(materials[i], Passes[k]))
                        b == RenderPipelineVendor_get_pipeline(
                                pipelines, Material_pipeline_id(materials[j], Passes[k]))
                    IN  a # 0 /\ a = b

\* Two differently named materials with the same signature, both prepared
C6_Witness ==
    \E i, j \in DOMAIN materials :
        /\ materials[i].name # materials[j].name
        /\ Presence(materials[i]) = Presence(materials[j])
        /\ i \in hist.prepared /\ j \in hist.prepared

\* C7: the scene pass renders into the offscreen color and depth attachments
\* and never into the swap-chain image; only the compositor pass targets the
\* swap-chain image, and it samples the attachments the scene pass wrote.
C7_SceneRendersOffscreen ==
    \A i \in Cmds :
        (cmds[i].op = "begin_render_pass" /\ cmds[i].who = "scene") =>
            /\ cmds[i].color.kind = "color"
            /\ cmds[i].depth.kind = "depth"
            /\ \A j \in Cmds :
                 (cmds[j].op = "set_bind_group" /\ cmds[j].who = "compositor") =>
                    cmds[j].color = cmds[i].color /\ cmds[j].depth = cmds[i].depth

\* C8: a redraw whose acquisition succeeds runs Scene.update, Scene.render and
\* Compositor.render in this order, then exactly one submit and then exactly
\* one present, none of them issued by Scene.render.
C8_OneSubmitOnePresent ==
    RedrawAcquired("Ok") =>
        /\ CountOp("submit") = 1
        /\ CountOp("present") = 1
        /\ Count("submit", "Scene.render") = 0
        /\ Count("present", "Scene.render") = 0
        /\ IndexOf("call", "Scene.update") < IndexOf("call", "Scene.render")
        /\ IndexOf("call", "Scene.render") < IndexOf("call", "Compositor.render")
        /\ IndexOf("call", "Compositor.render") < IndexOf("submit", "run")
        /\ IndexOf("submit", "run") < IndexOf("present", "run")

\* C9: when the acquisition returns Lost, the handler resizes the GPU context,
\* the scene and the compositor, in this order, to the GPU context's size,
\* records no render pass, submits and presents nothing, and the loop keeps
\* polling so that the next redraw acquires again.
C9_LostReappliesSize ==
    RedrawAcquired("Lost") =>
        LET n == Len(cmds)
        IN  /\ cmds[n - 3].op = "get_current_texture"
            /\ cmds[n - 2] = ResizeCall("GpuState.resize", gpu.size)
            /\ cmds[n - 1] = ResizeCall("Scene.resize", gpu.size)
            /\ cmds[n] = ResizeCall("Compositor.resize", gpu.size)
            /\ scene_size = gpu.size
            /\ camera_controller.camera.aspect = gpu.size
            /\ compositor.size = gpu.size
            /\ CountOp("begin_render_pass") = 0
            /\ CountOp("submit") = 0
            /\ CountOp("present") = 0
            /\ control_flow = "Poll"

\* A Lost frame: the attachments were created anew and the camera is dirty
C9_Witness ==
    /\ RedrawAcquired("Lost")
    /\ gpu.color_attachment.id > 2
    /\ compositor.textures_bind_group.color = gpu.color_attachment
    /\ camera_controller.camera.is_dirty

\* C10: a redraw sets the control flow to Exit exactly when the acquisition
\* returned OutOfMemory; on Lost, Outdated and Timeout the frame is skipped
\* (no pass, no submit, no present) and the loop keeps polling.
C10_ExitIffOutOfMemory ==
    /\ \A r \in SurfaceResults :
         RedrawAcquired(r) => (control_flow = "Exit" <=> r = "OutOfMemory")
    /\ \A r \in {"Lost", "Outdated", "Timeout"} :
         RedrawAcquired(r) =>
            /\ CountOp("begin_render_pass") = 0
            /\ CountOp("submit") = 0
            /\ CountOp("present") = 0

C10_Witness == RedrawAcquired("OutOfMemory") /\ control_flow = "Exit"

\* The commands Scene::render recorded for mesh k of model m in a pass
MeshCmds(m, k, pass) ==
    {i \in Cmds : /\ cmds[i].who = "scene" /\ cmds[i].model = m
                  /\ cmds[i].mesh = k /\ cmds[i].pass = pass}

\* C11: when Scene::render records its pass, a mesh whose material's
\* pipeline id for a pass is not in the cache gets no command at all in that
\* pass, every mesh whose pipeline is cached is still bound and drawn (once
\* in the ambient pass, once per lit light in the lit pass), and the frame is
\* submitted and presented.
C11_MissingPipelineSkipsMesh ==
    ScenePassRecorded =>
        /\ \A m \in ModelIds : \A k \in DOMAIN models[m].meshes :
             \A j \in DOMAIN Passes :
                LET material == models[m].materials[models[m].meshes[k]]
                    id == Material_pipeline_id(material, Passes[j])
                    recorded == MeshCmds(m, k, Passes[j])
                IN  IF RenderPipelineVendor_has_pipeline(pipelines, id)
                    THEN LET draws == IF Passes[j] = "Ambient" THEN 1
                                      ELSE Cardinality(LitLights)
                         IN  /\ Cardinality({i \in recorded :
                                    cmds[i].op = "set_pipeline"}) = draws
                             /\ Cardinality({i \in recorded :
                                    cmds[i].op = "draw_indexed"}) = draws
                    ELSE recorded = {}
        /\ CountOp("submit") >= 1
        /\ CountOp("present") >= 1

\* A recorded frame with a model whose second mesh has no cached pipeline
\* and whose first mesh is drawn
C11_Witness ==
    /\ ScenePassRecorded
    /\ \E m \in ModelIds :
         /\ Len(models[m].meshes) = 2
         /\ ~HasBothPipelines(models[m].materials[models[m].meshes[2]])
         /\ MeshCmds(m, 2, "Ambient") = {}
         /\ MeshCmds(m, 1, "Ambient") # {}
    /\ CountOp("present") >= 1

\* C12: update_instances and update_instance keep the number of instances,
\* store the mapped value at every key below the instance count, leave every
\* other instance as it was, ignore keys at or above the count, and set the
\* dirty flag exactly when a key was in range (else the flag keeps its
\* value); the next Model.update writes the re-packed instance vector once.
C12_InstanceUpdatePartial ==
    LET m == models[1]
        b == hist.before
        n == Len(b.instances)
    IN  /\ hist.op \in {"update_instances", "update_instance"} =>
              /\ Len(m.instances) = n
              /\ \A k \in 1..n :
                    m.instances[k] = IF (k - 1) \in DOMAIN hist.arg
                                     THEN hist.arg[k - 1] ELSE b.instances[k]
              /\ m.is_dirty = (b.is_dirty \/ \E idx \in DOMAIN hist.arg : idx < n)
              /\ m.instance_data = b.instance_data
        /\ hist.op = "update" =>
              /\ hist.writes = (IF b.is_dirty THEN 1 ELSE 0)
              /\ ~m.is_dirty
              /\ m.instances = b.instances
              /\ b.is_dirty => m.instance_data = PackInstances(m.instances)

\* update_instances on a clean model with one key in range and one out of
\* range: the model is dirty and only the instance in range changed
C12_Witness ==
    /\ hist.op = "update_instances"
    /\ ~hist.before.is_dirty
    /\ DOMAIN hist.arg = {1, 2}
    /\ models[1].is_dirty
    /\ models[1].instances[2] # hist.before.instances[2]
    /\ models[1].instances[1] = hist.before.instances[1]

\* The log entry of a call of GpuState::resize
IsGpuResize(c) == c.op = "call" /\ c.who = "GpuState.resize"

\* The compositor's texture bind group references the attachments the GPU
\* context currently holds
BoundToCurrent ==
    compositor.textures_bind_group =
        [color |-> gpu.color_attachment, depth |-> gpu.depth_attachment]

C14_ResizeIgnoresZero ==
    [][\A i \in DOMAIN cmds' :
            IsGpuResize(cmds'[i]) =>
                IF cmds'[i].size[1] = 0 \/ cmds'[i].size[2] = 0
                THEN gpu' = gpu
                ELSE /\ gpu'.size = cmds'[i].size
                     /\ gpu'.config = cmds'[i].size
                     /\ gpu'.color_attachment.kind = "color"
                     /\ gpu'.depth_attachment.kind = "depth"
                     /\ gpu'.color_attachment.id # gpu'.depth_attachment.id
                     /\ gpu'.color_attachment.id \notin
                            {gpu.color_attachment.id, gpu.depth_attachment.id}
                     /\ gpu'.depth_attachment.id \notin
                            {gpu.color_attachment.id, gpu.depth_attachment.id}]_vars

\* After a resize event to 0x600 that followed one to 1024x768: the scene
\* holds the new size, the GPU context the old one
C14_Witness ==
    /\ cmds # <<>>
    /\ IsGpuResize(cmds[1])
    /\ cmds[1].size = <<0, 600>>
    /\ scene_size = <<0, 600>>
    /\ gpu.size = <<1024, 768>>
    /\ gpu.config = <<1024, 768>>
    /\ gpu.color_attachment.size = <<1024, 768>>

\* C15: every Camera mutator (look_at, local_translate, rotate_by, resize)
\* leaves the camera dirty; the first update after such a mutation (also the
\* frame's update after a resize event) recomputes the uniform and issues
\* exactly one buffer write, and a further update without mutation none.
C15_MutatorsMarkDirty ==
    LET camera == camera_controller.camera
    IN  /\ hist.op \in CameraMutators => camera.is_dirty
        /\ hist.mutator \in CameraMutators =>
              /\ Len(hist.updates) >= 1 =>
                    /\ hist.updates[1] = 1
                    /\ ~camera.is_dirty
                    /\ camera.uniform_data = CameraUniform_update_view_proj(camera)
              /\ Len(hist.updates) = 2 => hist.updates[2] = 0

\* A resize of a clean camera followed by two frames
C15_Witness ==
    /\ hist.mutator = "resize"
    /\ hist.op = "frame"
    /\ hist.updates = <<1, 0>>
    /\ camera_controller.camera.aspect = <<1024, 768>>
    /\ camera_controller.camera.uniform_data.aspect = <<1024, 768>>

\* C16: set_fov_y with a value within 1e-4 of the current one leaves fov_y
\* and the dirty flag as they were; a value that differs by more is stored
\* and marks the camera dirty.
C16_FovEpsilon ==
    hist.op = "set_fov_y" =>
        LET camera == camera_controller.camera
            delta == IF hist.arg >= hist.fov_y THEN hist.arg - hist.fov_y
                     ELSE hist.fov_y - hist.arg
        IN  IF delta <= EPSILON
            THEN camera.fov_y = hist.fov_y /\ camera.is_dirty = hist.was_dirty
            ELSE camera.fov_y = hist.arg /\ camera.is_dirty

\* Two vectors are within 1e-4 of each other in Euclidean distance: their
\* squared distance is at most 1e-8, a 2500th of a squared unit
WithinEpsilon3(a, b) == distance2(a, b) * 2500 <= 1

\* The last call was the vector setter op of field f: it kept the light as
\* it was for an argument within 1e-4, else stored it and marked the light
VectorSetterCompares(op, f) ==
    hist.op = op =>
        IF WithinEpsilon3(hist.arg, hist.before[f])
        THEN lights[1] = hist.before
        ELSE lights[1][f] = hist.arg /\ lights[1].is_dirty

\* The same for the scalar setter op of field f
ScalarSetterCompares(op, f) ==
    hist.op = op =>
        IF Abs(hist.arg[1] - hist.before[f]) <= EPSILON
        THEN lights[1] = hist.before
        ELSE lights[1][f] = hist.arg[1] /\ lights[1].is_dirty

\* C17: every setter of Light keeps the stored value and the dirty flag when
\* the new value is within 1e-4 of the stored one (in Euclidean distance for
\* vectors), and stores the value and marks the light dirty otherwise.
C17_SettersCompareEpsilon ==
    /\ VectorSetterCompares("set_ambient", "ambient")
    /\ VectorSetterCompares("set_position", "position")
    /\ VectorSetterCompares("set_direction", "direction")
    /\ VectorSetterCompares("set_color", "color")
    /\ ScalarSetterCompares("set_constant_attenuation", "constant_attenuation")
    /\ ScalarSetterCompares("set_linear_attenuation", "linear_attenuation")
    /\ ScalarSetterCompares("set_exponential_attenuation", "exponential_attenuation")
    /\ ScalarSetterCompares("set_spot_breadth", "spot_breadth")

\* v has unit length within 1e-4: its squared length is within 2e-4 of 1
IsUnit(v) == Abs(Dot3(v, v) - One) <= 2 * EPSILON

\* C18: a Spot or Directional light's direction has unit length within 1e-4
\* in every state, as stored and, once update has staged it, in the uniform.
C18_DirectionNormalized ==
    lights[1].light_type \in {"Spot", "Directional"} =>
        /\ IsUnit(lights[1].direction)
        /\ ~lights[1].is_dirty => IsUnit(lights[1].uniform.direction)

\* C19: the constant, linear and exponential attenuation coefficients of a
\* light are >= 0 in every state, as stored and, once update has staged
\* them, in the uniform.
C19_AttenuationNonNegative ==
    /\ lights[1].constant_attenuation >= 0
    /\ lights[1].linear_attenuation >= 0
    /\ lights[1].exponential_attenuation >= 0
    /\ ~lights[1].is_dirty =>
          \A i \in 1..3 : lights[1].uniform.attenuation[i] >= 0

\* The texture the material m binds at slots i and i + 1: its view, then its sampler
BoundAt(m, i) ==
    {t \in {"environment_map", "diffuse", "normal", "glossiness"} :
        \E e, f \in 1..Len(m.bind_group_entries) :
            /\ m.bind_group_entries[e].binding = i
            /\ m.bind_group_entries[f].binding = i + 1
            /\ m.bind_group_entries[e].resource[2] = "view"
            /\ m.bind_group_entries[f].resource[2] = "sampler"
            /\ m.bind_group_entries[e].resource[1] = m.bind_group_entries[f].resource[1]
            /\ m.bind_group_entries[e].resource[1] \in
                  IF t = "environment_map" THEN {"environment_map", "Environment Placeholder"}
                  ELSE IF t = "diffuse" THEN {"diffuse_texture", "Diffuse Placeholder"}
                  ELSE IF t = "normal" THEN {"normal_texture", "Normal Placeholder"}
                  ELSE {"glossiness_texture", "Glossiness Placeholder"}}

\* C20: every material built by Material::new binds nine slots, whichever
\* optional textures it was given: the uniform at 0, the environment map at
\* 1-2, diffuse at 3-4, normal at 5-6 and glossiness at 7-8.
C20_SameSlotsForEveryMaterial ==
    \A i \in 1..Len(materials) :
        /\ Len(materials[i].bind_group_entries) = 9
        /\ materials[i].bind_group_entries[1].binding = 0
        /\ BoundAt(materials[i], 1) = {"environment_map"}
        /\ BoundAt(materials[i], 3) = {"diffuse"}
        /\ BoundAt(materials[i], 5) = {"normal"}
        /\ BoundAt(materials[i], 7) = {"glossiness"}

\* The cached pipeline of material m for pass, when there is one, is configured
\* for that pass: depth write and REPLACE blending for Ambient, no depth write
\* and additive ONE, ONE, ADD colour blending for Lit, LessEqual for both
ConfiguredFor(m, pass) ==
    LET id == Material_pipeline_id(m, pass)
    IN  RenderPipelineVendor_has_pipeline(pipelines, id) =>
            /\ pipelines[id].depth_write_enabled = (pass = "Ambient")
            /\ pipelines[id].blend = IF pass = "Ambient" THEN "REPLACE" ELSE "ONE_ONE_ADD"
            /\ pipelines[id].depth_compare = "LessEqual"

\* C21: after any sequence of prepare_pipelines calls, the pipeline cached
\* under a material's ambient id has depth write and REPLACE blending, the
\* one under its lit id has no depth write and additive blending, both
\* compare with LessEqual, and no id maps to a pipeline of the other pass.
C21_PipelineMatchesPass ==
    \A i \in 1..Len(materials) :
        /\ ConfiguredFor(materials[i], "Ambient")
        /\ ConfiguredFor(materials[i], "Lit")
        /\ materials[i].ambient_pipeline_id # materials[i].lit_pipeline_id

\* Two materials with different signatures have been prepared: four pipelines
C21_Witness ==
    /\ Len(materials) = 2
    /\ hist.prepared = {1, 2}
    /\ Cardinality(DOMAIN pipelines) = 4
    /\ \E id \in DOMAIN pipelines : pipelines[id].blend = "ONE_ONE_ADD"

----------------------------------------------------------------------------
\* The attachments of the scene's render pass at one pixel.  Every mesh draw
\* puts one fragment on the pixel, at the depth hist.frag_depth of its model
\* and with the colour hist.frag_color the shader gives it under the bound
\* light (0: the aggregate ambient light).  Colours are in units of 0.1, so
\* the Unorm colour attachment saturates at MaxColor.  The harness records
\* the sub-passes in any order: hist.drawn lists them, hist.fb is the pixel.

MaxColor == 10
ClearColor == 1
ClearDepth == 2

\* The blend state of a pipeline applied to the fragment colour src over dst
Blend_replace(blend, src, dst) == IF src > MaxColor THEN MaxColor ELSE src

Blend(blend, src, dst) ==
    LET sum == IF blend = "REPLACE" THEN src ELSE src + dst
    IN  IF sum > MaxColor THEN MaxColor ELSE sum

\* The pixel fb after the draw_indexed command c: the fragment passes the depth test
\* of the bound pipeline (LessEqual), is blended into the colour, and is
\* written to the depth attachment when the pipeline writes depth
DrawFragment(fb, c) ==
    LET cfg == pipelines[CHOOSE x \in DOMAIN pipelines : pipelines[x].obj = c.pipeline]
        depth == hist.frag_depth[c.model]
    IN  IF cfg.depth_compare = "LessEqual" /\ depth <= fb.depth
        THEN [color |-> Blend(cfg.blend, hist.frag_color[c.light], fb.color),
              depth |-> IF cfg.depth_write_enabled THEN depth ELSE fb.depth]
        ELSE fb

RECURSIVE Rasterize(_, _)
\* The pixel after the draws among the commands cs, in issue order
Rasterize(fb, cs) ==
    LET draws == SelectSeq(cs, LAMBDA c : c.op = "draw_indexed")
    IN  IF draws = <<>> THEN fb
        ELSE DrawFragment(Rasterize(fb, SubSeq(draws, 1, Len(draws) - 1)),
                          draws[Len(draws)])

\* The pixel after begin_render_pass: LoadOp::Clear on both attachments
Cleared == [color |-> ClearColor, depth |-> ClearDepth]

InitBlend ==
    /\ gpu = GpuState_new(InitialSize)
    /\ lights \in [LightIds -> {Light_new(t, Zero3) : t \in {"Ambient", "Point"}}]
    /\ models = [m \in ModelIds |-> SceneModel(m)]
    /\ pipelines = Scene_prepare_from(EmptyCache, models, 1)
    /\ camera_controller =
            CameraController_resize(CameraController_new(Camera_new(InitialSize)),
                                    InitialSize)
    /\ ambient_light = Scene_new_ambient_light(lights)
    /\ scene_size = InitialSize
    /\ compositor = Compositor_new(gpu)
    /\ control_flow = "Poll"
    /\ cmds = <<>>
    /\ materials = <<>>
    /\ \E d \in [ModelIds -> 1..ClearDepth], c \in [0..NLights -> {1, 3}] :
            hist = [frag_depth |-> d, frag_color |-> c, fb |-> Cleared, drawn |-> <<>>]

\* The sub-pass of light l (0: the ambient sub-pass) is recorded next
BlendPass(l, draws) ==
    /\ \A i \in DOMAIN hist.drawn : hist.drawn[i] # l
    /\ hist' = [hist EXCEPT !.fb = Rasterize(@, draws), !.drawn = Append(@, l)]
    /\ UNCHANGED <<gpu, pipelines, camera_controller, ambient_light, lights, models,
                   scene_size, compositor, control_flow, cmds, materials>>

NextBlend ==
    \/ BlendPass(0, Scene_ambient_pass(pipelines, models))
    \/ \E l \in LitLights : BlendPass(l, DrawModels(pipelines, models, 1, l, "Lit"))

SpecBlend == InitBlend /\ [][NextBlend]_vars

\* The pixel after the sub-passes in the order Scene::render records them
RenderedInOrder ==
    Rasterize(Cleared, Scene_ambient_pass(pipelines, models)
                        \o Scene_lit_passes(pipelines, models, lights, 1))

AllPassesDrawn == Len(hist.drawn) = 1 + Cardinality(LitLights)

LitFirstDiffers ==
    AllPassesDrawn /\ hist.drawn[1] # 0 /\ hist.fb # RenderedInOrder

\* Scene::update, called after the callback did call, returns with the
\* camera, the aggregate ambient light, every light and every model clean
UpdateLeavesClean(call) ==
    LET u == Scene_update(camera_controller, ambient_light, Callback(lights, call),
                          CallbackModels(models, call), 1)
    IN  /\ ~u.camera_controller.camera.is_dirty
        /\ ~u.ambient_light.is_dirty
        /\ \A l \in LightIds : ~u.lights[l].is_dirty
        /\ \A m \in ModelIds : ~u.models[m].is_dirty

\* C23: Scene::update returns with the camera, the aggregate ambient light,
\* every light and every model clean; in a redraw every buffer write is
\* issued before the queue submits, and at submit time the camera, the
\* lights, the models and the compositor uniform bound in the frame's draws
\* are clean.
C23_FlushedBeforeSubmit ==
    /\ \A call \in CallbackCalls : UpdateLeavesClean(call)
    /\ \A i, j \in Cmds :
            cmds[i].op = "write_buffer" /\ cmds[j].op = "submit" => i < j
    /\ Count("submit", "run") > 0 =>
            /\ ~camera_controller.camera.is_dirty
            /\ ~ambient_light.is_dirty
            /\ \A l \in LightIds : ~lights[l].is_dirty
            /\ \A m \in ModelIds : ~models[m].is_dirty
            /\ ~compositor.uniform.dirty

\* A redraw whose callback dirtied a light: the light's buffer and the
\* compositor uniform were written, and the frame was submitted
C23_Witness ==
    /\ Count("write_buffer", "light") > 0
    /\ Count("write_buffer", "compositor") > 0
    /\ Count("submit", "run") > 0
    /\ Count("draw_indexed", "scene") > 0

\* C24: once update has staged it, the uniform of an Ambient light has tag
\* 0, attenuation (1, 0, 0, 0) and zero position, direction and color,
\* whatever setters were called before; the tag is 1 for Point, 2 for Spot
\* and 3 for Directional, and the type of a light never changes.
C24_AmbientUniform ==
    /\ lights[1].light_type = hist.before.light_type
    /\ ~lights[1].is_dirty =>
        /\ lights[1].uniform.light_type =
                CASE lights[1].light_type = "Ambient" -> 0
                  [] lights[1].light_type = "Point" -> 1
                  [] lights[1].light_type = "Spot" -> 2
                  [] lights[1].light_type = "Directional" -> 3
        /\ lights[1].light_type = "Ambient" =>
                /\ lights[1].uniform.attenuation = <<One, 0, 0, <<"const", 0>> >>
                /\ lights[1].uniform.position = Zero3
                /\ lights[1].uniform.direction = Zero3
                /\ lights[1].uniform.color = Zero3

\* The buffer of the light l holds the packing of its fields
LightCoherent(l) == ~l.is_dirty => l.uniform = Light_stage(l)

\* C25: whenever the dirty flag of a Light, the Camera, a Model or a
\* UniformWrapper is false, its GPU buffer holds the packing of its current
\* CPU-side fields.
C25_CleanMeansCoherent ==
    /\ \A l \in LightIds : LightCoherent(lights[l])
    /\ LightCoherent(ambient_light)
    /\ ~camera_controller.camera.is_dirty =>
            camera_controller.camera.uniform_data =
                CameraUniform_update_view_proj(camera_controller.camera)
    /\ \A m \in ModelIds :
            ~models[m].is_dirty =>
                models[m].instance_data = PackInstances(models[m].instances)
    /\ ~compositor.uniform.dirty => compositor.uniform.buffer = compositor.uniform.data

\* Light 1, the camera, model 1 and the uniform were all mutated after
\* construction and are clean again
C25_Witness ==
    /\ ~lights[1].is_dirty /\ lights[1].ambient # Zero3
    /\ ~camera_controller.camera.is_dirty
    /\ camera_controller.camera.aspect # InitialSize
    /\ ~models[1].is_dirty /\ models[1].instances # <<0, 0>>
    /\ ~compositor.uniform.dirty /\ compositor.uniform.data # <<0, 0>>

\* The handler that recorded log was a redraw
IsRedrawLog(log) ==
    \E i \in DOMAIN log : log[i].op = "call" /\ log[i].who = "Scene.update"

\* A redraw that follows a redraw and finds nothing mutated: the callback, the
\* input and the frame left the scene, the compositor and the sizes as they were
QuietRedraw ==
    /\ IsRedrawLog(cmds) /\ IsRedrawLog(cmds')
    /\ <<gpu, camera_controller, ambient_light, lights, models, scene_size, compositor>>'
            = <<gpu, camera_controller, ambient_light, lights, models, scene_size, compositor>>

\* C26: a redraw with no mutation since the previous redraw issues no
\* buffer write at all; in particular the compositor uniform is not written.
C26_QuietRedrawWritesNothing ==
    [][QuietRedraw => \A i \in DOMAIN cmds' : cmds'[i].op # "write_buffer"]_vars

\* C27: after any sequence of resize, scale-factor-change and surface-Lost
\* events, zero-sized resizes included, the GPU context, the scene and the
\* compositor hold the same size.
C27_SizesAgree ==
    /\ gpu.size = scene_size
    /\ scene_size = compositor.size

\* Mesh k of model m was drawn in every sub-pass of the recorded frame: once
\* in the ambient sub-pass and once per lit light
DrawnInEveryPass(m, k) ==
    /\ Cardinality({i \in MeshCmds(m, k, "Ambient") : cmds[i].op = "draw_indexed"}) = 1
    /\ Cardinality({i \in MeshCmds(m, k, "Lit") : cmds[i].op = "draw_indexed"})
            = Cardinality(LitLights)

\* C28: the pipeline cache never evicts (a name it holds it holds forever),
\* so every material of every model passed to Scene::new has its ambient and
\* its lit pipeline in the cache in every frame, and draw_model skips no mesh
\* of such a model.
C28_NoEviction ==
    /\ [][\A x \in DOMAIN pipelines :
            RenderPipelineVendor_has_pipeline(pipelines', x)]_vars
    /\ [](\A m \in ModelIds : \A k \in DOMAIN models[m].meshes :
            /\ HasBothPipelines(models[m].materials[models[m].meshes[k]])
            /\ ScenePassRecorded => DrawnInEveryPass(m, k))

\* A frame recorded after a resize in which the two meshes of model 2, of
\* different materials, were drawn in the ambient and in a lit sub-pass
C28_Witness ==
    /\ ScenePassRecorded
    /\ gpu.size # InitialSize
    /\ LitLights # {}
    /\ Cardinality(DOMAIN pipelines) = 4
    /\ DrawnInEveryPass(2, 1) /\ DrawnInEveryPass(2, 2)

----------------------------------------------------------------------------
\* resources.rs: models built by load_model and drawn by draw_model.

\* load_model for an OBJ file whose material library holds nmat materials and
\* whose meshes carry the material ids of ids (-1 is None): every material is
\* built with the environment map, every mesh gets material_id.unwrap_or(0).
\* The model's meshes hold the index counted from 1.
load_model(nmat, ids) ==
    Model_new([k \in DOMAIN ids |-> (IF ids[k] = -1 THEN 0 ELSE ids[k]) + 1],
              [i \in 1..nmat |-> MaterialEnv],
              <<0>>)

\* Scene::new over models loaded from OBJ files of one or two meshes; tobj
\* resolves a mesh's material id within the library or leaves it None
InitLoad ==
    /\ gpu = GpuState_new(InitialSize)
    /\ lights = [l \in LightIds |-> Light_new("Point", Zero3)]
    /\ models \in [ModelIds ->
            {load_model(nmat, ids) :
                nmat \in 0..MaxMaterials,
                ids \in UNION {[1..n -> -1..(MaxMaterials - 1)] : n \in 1..2}}]
    /\ \A m \in ModelIds : \A k \in DOMAIN models[m].meshes :
            models[m].meshes[k] <= Len(models[m].materials) \/ models[m].meshes[k] = 1
    /\ pipelines = Scene_prepare_from(EmptyCache, models, 1)
    /\ camera_controller =
            CameraController_resize(CameraController_new(Camera_new(InitialSize)),
                                    InitialSize)
    /\ ambient_light = Scene_new_ambient_light(lights)
    /\ scene_size = InitialSize
    /\ compositor = Compositor_new(gpu)
    /\ control_flow = "Poll"
    /\ cmds = <<>>
    /\ materials = <<>>
    /\ hist = [model |-> 0, pass |-> "none", panicked |-> FALSE]

\* draw_model(render_pass, vendor, models[m], camera, light, pass):
\* &model.materials[mesh.material] panics when the index is out of bounds
NextLoad ==
    \E m \in ModelIds, lid \in 0..NLights :
        LET pass == IF lid = 0 THEN "Ambient" ELSE "Lit"
            faults == \E k \in DOMAIN models[m].meshes :
                        models[m].meshes[k] > Len(models[m].materials)
        IN  /\ ~hist.panicked
            /\ cmds' = IF faults THEN cmds
                       ELSE draw_model(pipelines, models[m], m, lid, pass)
            /\ hist' = [model |-> m, pass |-> pass, panicked |-> faults]
            /\ UNCHANGED <<gpu, pipelines, camera_controller, ambient_light, lights,
                           models, scene_size, compositor, control_flow, materials>>

SpecLoad == InitLoad /\ [][NextLoad]_vars

\* C29: draw_model never faults on its material lookup: every mesh of a
\* model built by the loader, one for a mesh without material id or for a file
\* without materials included, indexes a material the model holds.
C29_MaterialLookupInBounds ==
    \A m \in ModelIds :
        hist.model = m =>
            /\ ~hist.panicked
            /\ \A k \in DOMAIN models[m].meshes :
                    models[m].meshes[k] \in DOMAIN models[m].materials

----------------------------------------------------------------------------
DistinctIds(m1, m2) ==
    /\ m1.ambient_pipeline_id # m2.ambient_pipeline_id
    /\ m1.lit_pipeline_id # m2.lit_pipeline_id

\* C30 as stated: two materials that differ in the presence of a diffuse,
\* normal or glossiness texture, or in the presence of an environment map,
\* have different ambient and different lit pipeline ids.
C30_IdsDistinguishPresence ==
    \A i, j \in DOMAIN materials :
        (\/ materials[i].has_textures # materials[j].has_textures
         \/ materials[i].environment_map # materials[j].environment_map)
            => DistinctIds(materials[i], materials[j])

\* C30 amended: the pipeline ids distinguish two materials exactly when they
\* differ in the presence of an environment map; a diffuse, normal or
\* glossiness texture replaced by a placeholder leaves both ids as they are.
C30_IdsDistinguishEnvironmentMap ==
    \A i, j \in DOMAIN materials :
        IF materials[i].environment_map # materials[j].environment_map
        THEN DistinctIds(materials[i], materials[j])
        ELSE SameIds(materials[i], materials[j])

\* Both cases met: two materials apart in the environment map only, and two
\* apart in the diffuse texture only
C30_Witness ==
    /\ Len(materials) = 2
    /\ \/ /\ materials[1].environment_map # materials[2].environment_map
          /\ materials[1].has_textures = materials[2].has_textures
          /\ DistinctIds(materials[1], materials[2])
       \/ /\ materials[1].environment_map = materials[2].environment_map
          /\ materials[1].has_textures = <<TRUE, FALSE, FALSE>>
          /\ materials[2].has_textures = <<FALSE, FALSE, FALSE>>
          /\ SameIds(materials[1], materials[2])

====
